---------------------------- MODULE Spec2Model ----------------------------
(***************************************************************************)
(* Model of src/app.py: a Streamlit page that collects participant         *)
(* identity, an evaluation and a post-test, scores the post-test, stores   *)
(* one row per scored submission (local CSV, evaluation worksheet) and,    *)
(* on a pass, renders a certificate and stores a certificate row.          *)
(*                                                                         *)
(* Streamlit re-executes the whole script on every widget interaction.     *)
(* One action of the model is one such script run, named after the widget  *)
(* that triggered it.  The widget values and st.session_state survive      *)
(* from run to run; the local variables of the script do not.              *)
(*                                                                         *)
(* Abstractions.  Strings that the code only tests for emptiness and       *)
(* copies are TLA+ strings; strings the code transforms (free text, sheet  *)
(* header cells) are sequences of one-character strings.  A row carries    *)
(* the columns the handler computes; the remaining columns of the row are  *)
(* verbatim copies of evaluation widgets.  The float quotient              *)
(* 100 * correct / total is kept as the exact fraction num/den: for the    *)
(* quiz sizes of the model the IEEE-754 rounding of the quotient changes   *)
(* neither its comparison with an integer threshold nor its rounding to    *)
(* an integer for display.                                                 *)
(***************************************************************************)
EXTENDS Integers, Sequences, FiniteSets, TLC

VARIABLES
    QUIZ,             \* json.load(questions.json): sequence of quiz items
    PASSING_SCORE,    \* int(COURSE.get("passing_score", 75))
    full_name,        \* "info" form widgets, as committed by the last Continue
    email,
    attendance,
    participant_ok,   \* st.session_state["participant_ok"]
    answers,          \* radio widgets q1..qN: an option or None
    topics_interest,  \* text areas
    comments,
    event,            \* the widget that triggered the last script run
    ui,               \* the messages the last script run displayed
    download,         \* {cert_id} of the PDF behind the download button, or {}
    scored,           \* {locals} of the last run if it reached "Compute score", or {}
    csv,              \* data/submissions.csv: the rows appended
    evalSheet,        \* row dicts appended to the EVAL_TAB worksheet
    certSheet,        \* row dicts appended to the CERT_TAB worksheet
    pdfs,             \* the calls of make_certificate_pdf that returned
    nextId,           \* number of uuid.uuid4() calls so far
    sessionScored,    \* number of runs of this session that reached "Compute score"
    ws,               \* a worksheet as sheets_append_dict sees it
    lastDict          \* the row_dict of the last sheets_append_dict call

vars == <<QUIZ, PASSING_SCORE, full_name, email, attendance, participant_ok,
          answers, topics_interest, comments, event, ui, download, scored,
          csv, evalSheet, certSheet, pdfs, nextId, sessionScored, ws, lastDict>>

configVars  == <<QUIZ, PASSING_SCORE>>
formVars    == <<full_name, email, attendance>>
storeVars   == <<csv, evalSheet, certSheet, pdfs, nextId>>
sheetVars   == <<ws, lastDict>>

-----------------------------------------------------------------------------
(* Bounds *)

MaxQuiz == 3
MaxSubmits == 2
ScoreSubmits == 1
TextSubmits == 1
MaxText == 2
MaxHeader == 2
MaxCell == 2
MaxAppends == 2

\* int(COURSE.get("passing_score", 75))
DefaultPassingScore == 75

None == "None"
Options == {"A", "B"}
Names == {"", "Ann"}
Emails == {"", "ann@x.org"}
PassingScores == {50, 67, 75}
TextChars == {"a", "\n"}

\* sequences over S of length at most n
RECURSIVE SeqsUpTo(_, _)
SeqsUpTo(S, n) ==
    IF n = 0 THEN {<<>>}
    ELSE LET shorter == SeqsUpTo(S, n - 1)
         IN  shorter \cup {Append(s, c) : s \in {t \in shorter : Len(t) = n - 1}, c \in S}

Texts == SeqsUpTo(TextChars, MaxText)
CommentTexts == {<<>>, <<"\n">>, <<"a", "\n", "a">>}

ItemA == [options |-> <<"A", "B">>, answer |-> "A"]
FlowQuizzes == {<<>>, <<ItemA>>}
QuizItems == {[options |-> <<"A", "B">>, answer |-> a] : a \in Options}
Quizzes(maxN) == SeqsUpTo(QuizItems, maxN)

-----------------------------------------------------------------------------
(* Pure helpers of the submit handler *)

\* a replace that drops the character and ignores new
RECURSIVE ReplaceDropping(_, _, _)
ReplaceDropping(s, old, new) ==
    IF s = <<>> THEN <<>>
    ELSE (IF Head(s) = old THEN <<>> ELSE <<Head(s)>>) \o ReplaceDropping(Tail(s), old, new)

\* str.replace(old, new) for a one-character old
RECURSIVE Replace(_, _, _)
Replace(s, old, new) ==
    IF s = <<>> THEN <<>>
    ELSE (IF Head(s) = old THEN new ELSE <<Head(s)>>) \o Replace(Tail(s), old, new)

\* sum(1 for i, q in enumerate(QUIZ, start=1) if answers[str(i)] == q["answer"])
RECURSIVE SumCorrect(_, _, _)
SumCorrect(quiz, ans, i) ==
    IF i > Len(quiz) THEN 0
    ELSE (IF ans[i] = quiz[i].answer THEN 1 ELSE 0) + SumCorrect(quiz, ans, i + 1)

\* any(answers[str(i)] is None for i in range(1, len(QUIZ) + 1))
AnyUnanswered(quiz, ans) == \E i \in 1..Len(quiz) : ans[i] = None

\* floor division in place of true division
ScorePctFloor(correct, total) == [num |-> (100 * correct) \div total, den |-> 1]

\* score_pct = 100 * correct / total   (true division; total > 0)
ScorePct(correct, total) == [num |-> 100 * correct, den |-> total]

\* a strict comparison in place of >=
PassedStrict(score_pct, threshold) == score_pct.num > threshold * score_pct.den

\* passed = score_pct >= PASSING_SCORE
Passed(score_pct, threshold) == score_pct.num >= threshold * score_pct.den

\* f"{score_pct:.0f}" and round(score_pct): nearest integer, ties to even
RoundHalfEven(score_pct) ==
    LET q == score_pct.num \div score_pct.den
        r == score_pct.num % score_pct.den
    IN  IF 2 * r < score_pct.den THEN q
        ELSE IF 2 * r > score_pct.den THEN q + 1
        ELSE IF q % 2 = 0 THEN q ELSE q + 1

\* BOOL = lambda b: "Yes" if bool(b) else "No"
BOOL(b) == IF b THEN "Yes" ELSE "No"

\* an identifier that is not fresh
Uuid4Reused(n) == 1

\* cert_id = str(uuid.uuid4()): a token no earlier call returned
Uuid4(n) == n + 1


-----------------------------------------------------------------------------
(* The "info" form *)

\* the test of `if not full_name or not email or not attendance`, negated
IdentityComplete(n, e, a) == ~(n = "" \/ e = "" \/ ~a)

\* the flag assigned on both branches
ParticipantOkAssigned(valid, ok) == valid

\* st.session_state["participant_ok"] after the `if cont:` block
ParticipantOkAfter(valid, ok) == IF valid THEN TRUE ELSE ok

\* Click on "Continue": the form's widget values are committed and the script
\* reruns with cont = True.  The Submit button, if rendered, is False.
Continue(n, e, a) ==
    /\ full_name' = n
    /\ email' = e
    /\ attendance' = a
    /\ participant_ok' = ParticipantOkAfter(IdentityComplete(n, e, a), participant_ok)
    /\ ui' = IF IdentityComplete(n, e, a) THEN {"thanks"} ELSE {"err_identity"}
    /\ event' = "continue"
    /\ download' = {}
    /\ scored' = {}
    /\ UNCHANGED <<configVars, answers, topics_interest, comments, storeVars,
                   sessionScored, sheetVars>>

-----------------------------------------------------------------------------
(* Evaluation and post-test widgets, rendered only under participant_ok *)

\* A radio q{i} is set: the script reruns, no button is True.
Answer(i, o) ==
    /\ participant_ok
    /\ i \in 1..Len(QUIZ)
    /\ o \in {QUIZ[i].options[j] : j \in 1..Len(QUIZ[i].options)}
    /\ answers[i] # o
    /\ answers' = [answers EXCEPT ![i] = o]
    /\ event' = "answer"
    /\ ui' = {}
    /\ download' = {}
    /\ scored' = {}
    /\ UNCHANGED <<configVars, formVars, participant_ok, topics_interest, comments,
                   storeVars, sessionScored, sheetVars>>

EnterTopics(t) ==
    /\ participant_ok
    /\ topics_interest # t
    /\ topics_interest' = t
    /\ event' = "text"
    /\ ui' = {}
    /\ download' = {}
    /\ scored' = {}
    /\ UNCHANGED <<configVars, formVars, participant_ok, answers, comments,
                   storeVars, sessionScored, sheetVars>>

EnterComments(t) ==
    /\ participant_ok
    /\ comments # t
    /\ comments' = t
    /\ event' = "text"
    /\ ui' = {}
    /\ download' = {}
    /\ scored' = {}
    /\ UNCHANGED <<configVars, formVars, participant_ok, answers, topics_interest,
                   storeVars, sessionScored, sheetVars>>

-----------------------------------------------------------------------------
(* The submit handler *)

\* a completion check that stops only when nothing is answered
QuizIncompleteIfAllUnset(quiz, ans) == \A i \in 1..Len(quiz) : ans[i] = None

\* the validation of quiz completion: True means st.error and st.stop
QuizIncomplete(quiz, ans) == AnyUnanswered(quiz, ans)

\* row = {...}: the columns the handler computes or transforms
Row(correct, total, score_pct, passed, cert_id) ==
    [ full_name       |-> full_name,
      email           |-> email,
      attendance      |-> IF attendance THEN "Yes" ELSE "No",
      topics_interest |-> Replace(topics_interest, "\n", <<" ">>),
      comments        |-> Replace(comments, "\n", <<" ">>),
      quiz_score      |-> correct,
      quiz_total      |-> total,
      quiz_pct        |-> RoundHalfEven(score_pct),
      quiz_passed     |-> BOOL(passed),
      score_pct       |-> RoundHalfEven(score_pct),
      passed          |-> passed,
      cert_id         |-> cert_id ]

\* save_eval_to_sheets: the dict handed to sheets_append_dict(SHEET_ID, EVAL_TAB, .)
EvalRow(row) ==
    LET norm == [row EXCEPT !.topics_interest = Replace(@, "\n", <<" ">>),
                            !.comments        = Replace(@, "\n", <<" ">>)]
    IN  [k \in DOMAIN norm \cup {"payload_json"} |->
            IF k = "payload_json" THEN norm ELSE norm[k]]

\* cert_row = {...}
CertRow(cert_id) ==
    [cert_id |-> cert_id, name |-> full_name, email |-> email]

\* make_certificate_pdf(full_name, email, score_pct, cert_id): what the PDF prints
CertificatePdf(score_pct, cert_id) ==
    [full_name |-> full_name, score |-> RoundHalfEven(score_pct), cert_id |-> cert_id]

\* the handler without its `if not passed` stop
ReachesCertificateAlways(passed) == TRUE

\* `if not passed: st.error(...); st.stop()`: the handler goes on to the certificate
ReachesCertificate(passed) == passed

\* Click on "Submit Evaluation & Generate Certificate".  csvOk, evalOk and certOk
\* say whether save_row_to_csv, save_eval_to_sheets and save_cert_to_sheets
\* return (True) or raise (False).
Submit(csvOk, evalOk, certOk) ==
    /\ participant_ok
    /\ event' = "submit"
    /\ UNCHANGED <<configVars, formVars, participant_ok, answers, topics_interest,
                   comments, sheetVars>>
    /\ IF QuizIncomplete(QUIZ, answers)
       THEN /\ ui' = {"err_incomplete"}
            /\ download' = {}
            /\ scored' = {}
            /\ UNCHANGED <<storeVars, sessionScored>>
       ELSE IF Len(QUIZ) = 0
       THEN \* 100 * correct / total raises ZeroDivisionError
            /\ ui' = {"exception"}
            /\ download' = {}
            /\ scored' = {}
            /\ UNCHANGED <<storeVars, sessionScored>>
       ELSE LET correct   == SumCorrect(QUIZ, answers, 1)
                total     == Len(QUIZ)
                score_pct == ScorePct(correct, total)
                passed    == Passed(score_pct, PASSING_SCORE)
                cert_id   == Uuid4(nextId)
                row       == Row(correct, total, score_pct, passed, cert_id)
                badge     == IF passed THEN "badge_pass" ELSE "badge_fail"
                saved     == IF evalOk THEN "saved_sheets" ELSE "err_sheets_eval"
            IN  /\ nextId' = nextId + 1
                /\ sessionScored' = sessionScored + 1
                /\ scored' = {[correct |-> correct, total |-> total,
                               score_pct |-> score_pct, passed |-> passed,
                               cert_id |-> cert_id]}
                /\ IF ~csvOk
                   THEN \* save_row_to_csv raises: nothing catches it
                        /\ ui' = {badge, "exception"}
                        /\ download' = {}
                        /\ UNCHANGED <<csv, evalSheet, certSheet, pdfs>>
                   ELSE /\ csv' = Append(csv, row)
                        /\ evalSheet' = IF evalOk THEN Append(evalSheet, EvalRow(row))
                                        ELSE evalSheet
                        /\ IF ~ReachesCertificate(passed)
                           THEN /\ ui' = {badge, saved, "err_not_passed"}
                                /\ download' = {}
                                /\ UNCHANGED <<certSheet, pdfs>>
                           ELSE /\ pdfs' = Append(pdfs, CertificatePdf(score_pct, cert_id))
                                /\ certSheet' = IF certOk
                                                THEN Append(certSheet, CertRow(cert_id))
                                                ELSE certSheet
                                /\ ui' = {badge, saved, "congrats"}
                                         \cup (IF certOk THEN {} ELSE {"warn_sheets_cert"})
                                /\ download' = {cert_id}

\* Click on the download button: the script reruns, no button is True.
Download ==
    /\ download # {}
    /\ event' = "download"
    /\ ui' = {}
    /\ download' = {}
    /\ scored' = {}
    /\ UNCHANGED <<configVars, formVars, participant_ok, answers, topics_interest,
                   comments, storeVars, sessionScored, sheetVars>>

\* The page is opened anew: widgets and st.session_state start over, the stores stay.
NewSession ==
    /\ event # "init"
    /\ event # "new_session"
    /\ full_name' = ""
    /\ email' = ""
    /\ attendance' = FALSE
    /\ participant_ok' = FALSE
    /\ answers' = [i \in 1..Len(QUIZ) |-> None]
    /\ topics_interest' = <<>>
    /\ comments' = <<>>
    /\ event' = "new_session"
    /\ ui' = {}
    /\ download' = {}
    /\ scored' = {}
    /\ sessionScored' = 0
    /\ UNCHANGED <<configVars, storeVars, sheetVars>>

-----------------------------------------------------------------------------
(* Specifications of the page *)

\* the worksheet that gspread does not find
NoSheet == [exists |-> FALSE, rows |-> <<>>]

PageInit(quizzes, thresholds) ==
    /\ QUIZ \in quizzes
    /\ PASSING_SCORE \in thresholds
    /\ full_name = ""
    /\ email = ""
    /\ attendance = FALSE
    /\ participant_ok = FALSE
    /\ answers = [i \in 1..Len(QUIZ) |-> None]
    /\ topics_interest = <<>>
    /\ comments = <<>>
    /\ event = "init"
    /\ ui = {}
    /\ download = {}
    /\ scored = {}
    /\ csv = <<>>
    /\ evalSheet = <<>>
    /\ certSheet = <<>>
    /\ pdfs = <<>>
    /\ nextId = 0
    /\ sessionScored = 0

\* The page starts; the worksheet of the sheets_append_dict model is left alone.
InitOver(quizzes, thresholds) ==
    /\ PageInit(quizzes, thresholds)
    /\ ws = NoSheet
    /\ lastDict = <<>>

\* In each specification the script runs until a number of identifiers has been
\* generated; the download button that the last of these runs may offer can
\* still be clicked.

\* The session flow with the text areas left empty: every identity input, the
\* empty and a one-item quiz, the default threshold.
Init == InitOver(FlowQuizzes, {DefaultPassingScore})
Next ==
    \/ \E n \in Names, e \in Emails, a \in BOOLEAN :
          nextId < MaxSubmits /\ Continue(n, e, a)
    \/ \E i \in 1..MaxQuiz, o \in Options :
          nextId < MaxSubmits /\ Answer(i, o)
    \/ \E csvOk \in BOOLEAN, evalOk \in BOOLEAN, certOk \in BOOLEAN :
          nextId < MaxSubmits /\ Submit(csvOk, evalOk, certOk)
    \/ nextId < MaxSubmits /\ NewSession
    \/ Download
Spec == Init /\ [][Next]_vars

\* Scoring: quizzes up to MaxQuiz items with every answer key, several
\* thresholds, one complete identity, the text areas left empty.
InitScore == InitOver(Quizzes(MaxQuiz), PassingScores)
NextScore ==
    \/ \E a \in BOOLEAN :
          nextId < ScoreSubmits /\ Continue("Ann", "ann@x.org", a)
    \/ \E i \in 1..MaxQuiz, o \in Options :
          nextId < ScoreSubmits /\ Answer(i, o)
    \/ \E csvOk \in BOOLEAN, evalOk \in BOOLEAN, certOk \in BOOLEAN :
          nextId < ScoreSubmits /\ Submit(csvOk, evalOk, certOk)
    \/ nextId < ScoreSubmits /\ NewSession
    \/ Download
SpecScore == InitScore /\ [][NextScore]_vars

\* Free text: every text of the bound in topics_interest, three texts in comments
\* (both go through the same replace), one complete identity, a one-item quiz.
InitText == InitOver({<<ItemA>>}, {DefaultPassingScore})
NextText ==
    \/ \E a \in BOOLEAN :
          nextId < TextSubmits /\ Continue("Ann", "ann@x.org", a)
    \/ \E i \in 1..MaxQuiz, o \in Options :
          nextId < TextSubmits /\ Answer(i, o)
    \/ \E t \in Texts :
          nextId < TextSubmits /\ EnterTopics(t)
    \/ \E t \in CommentTexts :
          nextId < TextSubmits /\ EnterComments(t)
    \/ \E csvOk \in BOOLEAN, evalOk \in BOOLEAN, certOk \in BOOLEAN :
          nextId < TextSubmits /\ Submit(csvOk, evalOk, certOk)
    \/ nextId < TextSubmits /\ NewSession
    \/ Download
SpecText == InitText /\ [][NextText]_vars

-----------------------------------------------------------------------------
(* sheets_append_dict on one worksheet *)

\* A worksheet is [exists, rows]: rows[1] is the header row, a sequence of cells;
\* a header cell is a sequence of characters, a data cell an opaque string.
\* A row_dict is a sequence of [key, value] with distinct keys, in insertion order.

Whitespace == {" "}
CellChars == {"a", "b", " "}
ColumnKeys == {<<"a">>, <<"b">>}
CellValues == {"1", "2"}

\* str.strip()
RECURSIVE LStrip(_)
LStrip(s) == IF s # <<>> /\ Head(s) \in Whitespace THEN LStrip(Tail(s)) ELSE s
RECURSIVE RStrip(_)
RStrip(s) ==
    IF s # <<>> /\ s[Len(s)] \in Whitespace THEN RStrip(SubSeq(s, 1, Len(s) - 1)) ELSE s
Strip(s) == RStrip(LStrip(s))

\* list(row_dict.keys())
DictKeys(d) == [i \in 1..Len(d) |-> d[i].key]

\* row_dict.get(col, default)
DictGet(d, col, default) ==
    IF \E i \in 1..Len(d) : d[i].key = col
    THEN d[CHOOSE i \in 1..Len(d) : d[i].key = col].value
    ELSE default

\* [k for k in row_dict.keys() if k not in header_set]
RECURSIVE NewCols(_, _)
NewCols(keys, header_set) ==
    IF keys = <<>> THEN <<>>
    ELSE (IF Head(keys) \notin header_set THEN <<Head(keys)>> ELSE <<>>)
         \o NewCols(Tail(keys), header_set)

\* the worksheet after sheets_append_dict(sheet_id, tab_name, row_dict) returns
SheetsAppendDict(w, row_dict) ==
    LET \* except gspread.WorksheetNotFound: add_worksheet, append_row(header)
        opened     == IF w.exists THEN w
                      ELSE [exists |-> TRUE, rows |-> <<DictKeys(row_dict)>>]
        \* header = ws.row_values(1) or []
        header     == IF Len(opened.rows) >= 1 THEN opened.rows[1] ELSE <<>>
        header_set == {Strip(header[j]) : j \in 1..Len(header)}
        new_cols   == NewCols(DictKeys(row_dict), header_set)
        extended   == IF new_cols # <<>> THEN header \o new_cols ELSE header
        \* ws.update('1:1', [header_extended])
        updated    == IF new_cols = <<>> THEN opened.rows
                      ELSE IF opened.rows = <<>> THEN <<extended>>
                      ELSE [opened.rows EXCEPT ![1] = extended]
        row_vals   == [j \in 1..Len(extended) |-> DictGet(row_dict, extended[j], "")]
    IN  [exists |-> TRUE, rows |-> Append(updated, row_vals)]

\* A call of sheets_append_dict that returns
AppendDict(d) ==
    /\ ws' = SheetsAppendDict(ws, d)
    /\ lastDict' = d
    /\ UNCHANGED <<configVars, formVars, participant_ok, answers, topics_interest,
                   comments, event, ui, download, scored, storeVars, sessionScored>>

HeaderCells == SeqsUpTo(CellChars, MaxCell)
Headers == SeqsUpTo(HeaderCells, MaxHeader)

\* the non-empty row_dicts over ColumnKeys, in either key order
RowDicts ==
    {<<[key |-> k, value |-> v]>> : k \in ColumnKeys, v \in CellValues}
    \cup {d \in [1..2 -> [key : ColumnKeys, value : CellValues]] : d[1].key # d[2].key}

\* The worksheet is missing, or exists with no row, or exists with a header row
\* somebody typed.  The page itself does not run in this specification.
InitSheets ==
    /\ PageInit({<<>>}, {DefaultPassingScore})
    /\ ws \in {NoSheet, [exists |-> TRUE, rows |-> <<>>]}
              \cup {[exists |-> TRUE, rows |-> <<h>>] : h \in Headers \ {<<>>}}
    /\ lastDict = <<>>

DataRows(w) == IF w.rows = <<>> THEN 0 ELSE Len(w.rows) - 1

NextSheets == DataRows(ws) < MaxAppends /\ \E d \in RowDicts : AppendDict(d)
SpecSheets == InitSheets /\ [][NextSheets]_vars

-----------------------------------------------------------------------------
(* Claims about the page *)

Last(q) == q[Len(q)]
Unanswered == {i \in 1..Len(QUIZ) : answers[i] = None}
CorrectItems == {i \in 1..Len(QUIZ) : answers[i] = QUIZ[i].answer}

\* C1 (as claimed): every stored Submission Record (CSV row, evaluation-sheet row)
\* carries a non-empty name, a non-empty email and an affirmed attendance, and a
\* Continue click with an incomplete identity reports a validation failure.
IdentityGateOnRecords ==
    /\ \A j \in 1..Len(csv) :
          csv[j].full_name # "" /\ csv[j].email # "" /\ csv[j].attendance = "Yes"
    /\ \A j \in 1..Len(evalSheet) :
          /\ evalSheet[j].full_name # ""
          /\ evalSheet[j].email # ""
          /\ evalSheet[j].attendance = "Yes"
    /\ (event = "continue" /\ (full_name = "" \/ email = "" \/ ~attendance))
          => ui = {"err_identity"}

\* C2: a Submit click while at least one quiz item is unanswered scores nothing,
\* generates no identifier, writes no CSV row, no sheet row and no certificate,
\* and shows only the validation failure.
QuizCompletenessGate ==
    [][ (event' = "submit" /\ Unanswered # {})
          => /\ UNCHANGED <<csv, evalSheet, certSheet, pdfs, nextId, sessionScored>>
             /\ scored' = {}
             /\ download' = {}
             /\ ui' = {"err_incomplete"} ]_vars

\* C2 witness: Submit was clicked with one item answered and another one not.
QuizPartlyAnsweredSubmit ==
    /\ event = "submit"
    /\ ui = {"err_incomplete"}
    /\ Unanswered # {}
    /\ Unanswered # 1..Len(QUIZ)

\* C3: when the handler scores, correct is the number of items whose selection
\* equals the item's answer, total is the quiz size, and the percentage is
\* exactly 100 * correct / total (percentage * N = 100 * correct); the stored
\* row carries the same correct and total.
ScoringIsExact ==
    \A s \in scored :
        /\ s.correct = Cardinality(CorrectItems)
        /\ s.total = Len(QUIZ)
        /\ s.score_pct.num * Len(QUIZ) = 100 * Cardinality(CorrectItems) * s.score_pct.den
        /\ \A j \in 1..Len(csv) :
              csv[j].cert_id = s.cert_id
                 => /\ csv[j].quiz_score = Cardinality(CorrectItems)
                    /\ csv[j].quiz_total = Len(QUIZ)

\* C3 witness: a three-item quiz scored with one correct answer (33.33...%).
ScoredOneOfThree ==
    \E s \in scored : s.correct = 1 /\ s.total = 3 /\ Len(csv) = 1

\* C4: passed holds exactly when 100 * correct >= threshold * total, whatever the
\* percentage rounds to for display.
PassIffAtLeastThreshold ==
    /\ \A s \in scored : s.passed <=> (100 * s.correct >= PASSING_SCORE * s.total)
    /\ \A j \in 1..Len(csv) :
          /\ csv[j].passed <=> (100 * csv[j].quiz_score >= PASSING_SCORE * csv[j].quiz_total)
          /\ csv[j].quiz_passed = (IF csv[j].passed THEN "Yes" ELSE "No")

\* C4 witness: a stored row whose displayed percentage reaches the threshold
\* (66.67 shown as 67, threshold 67) and which did not pass.
RoundsUpToThresholdButFails ==
    \E j \in 1..Len(csv) : csv[j].score_pct >= PASSING_SCORE /\ ~csv[j].passed

\* C5: every certificate produced (PDF, certificate-sheet row, download offer)
\* has a stored Submission Record with the same identifier and passed = true, and
\* no record with passed = false has a certificate.
CertificateOnlyOnPass ==
    LET certIds == {certSheet[i].cert_id : i \in 1..Len(certSheet)}
                   \cup {pdfs[i].cert_id : i \in 1..Len(pdfs)}
                   \cup download
    IN  /\ \A c \in certIds : \E j \in 1..Len(csv) : csv[j].cert_id = c /\ csv[j].passed
        /\ \A j \in 1..Len(csv) : ~csv[j].passed => csv[j].cert_id \notin certIds

\* C5 witness: one submission failed, another passed and got its certificate.
FailedAndCertifiedSubmissions ==
    /\ \E j \in 1..Len(csv) : ~csv[j].passed
    /\ Len(pdfs) = 1
    /\ Len(certSheet) = 1

\* C6 (as claimed): after a Submit run that scored a passing submission, the
\* certificate is offered for download whichever writer call failed.
WriterFailureNeverBlocksCertificate ==
    \A s \in scored : s.passed => download = {s.cert_id}

\* C7 (as claimed): a session is scored at most once.
SessionScoredAtMostOnce == sessionScored <= 1

\* C7 (amended): within a session participant_ok, once set, is never cleared, and
\* every Submit click with a complete Answer Set on a non-empty quiz is scored and
\* generates its own identifier, also after an earlier scoring of the session.
SessionGateStaysOpen ==
    [][ /\ (participant_ok /\ event' # "new_session") => participant_ok'
        /\ (event' = "submit" /\ Unanswered = {} /\ Len(QUIZ) > 0)
              => /\ sessionScored' = sessionScored + 1
                 /\ nextId' = nextId + 1
                 /\ scored' # {} ]_vars

\* C7 witness: one session scored twice.
SessionScoredTwice == sessionScored = 2 /\ Len(csv) = 2

\* C8: stored rows carry pairwise distinct identifiers; the identifier of a
\* certificate row, of a PDF and of the download offer is the one of exactly one
\* stored row, which is the row of the same submission.
IdentifierIsJoinKey ==
    /\ \A i, j \in 1..Len(csv) : i # j => csv[i].cert_id # csv[j].cert_id
    /\ \A i \in 1..Len(certSheet) :
          Cardinality({j \in 1..Len(csv) : csv[j].cert_id = certSheet[i].cert_id}) = 1
    /\ \A i \in 1..Len(pdfs) :
          Cardinality({j \in 1..Len(csv) : csv[j].cert_id = pdfs[i].cert_id}) = 1
    /\ \A i \in 1..Len(evalSheet) :
          Cardinality({j \in 1..Len(csv) : csv[j].cert_id = evalSheet[i].cert_id}) = 1
    /\ \A s \in scored : \A d \in download :
          /\ d = s.cert_id
          /\ Last(csv).cert_id = d
          /\ Last(pdfs).cert_id = d
          /\ "warn_sheets_cert" \notin ui => Last(certSheet).cert_id = d

\* C8 witness: two submissions stored, both with a certificate row.
TwoCertifiedSubmissions == Len(csv) = 2 /\ Len(certSheet) = 2 /\ download # {}

\* C9: the stored topics_interest and comments are the inputs with every line
\* break replaced by one space, hold no line break, and the evaluation-sheet row
\* holds the same values as the CSV row.
SpacesFor(t) == [k \in 1..Len(t) |-> IF t[k] = "\n" THEN " " ELSE t[k]]
LineBreaksBecomeSpaces ==
    /\ \A j \in 1..Len(csv) :
          /\ \A k \in 1..Len(csv[j].topics_interest) : csv[j].topics_interest[k] # "\n"
          /\ \A k \in 1..Len(csv[j].comments) : csv[j].comments[k] # "\n"
    /\ \A s \in scored : \A j \in 1..Len(csv) :
          csv[j].cert_id = s.cert_id
             => /\ csv[j].topics_interest = SpacesFor(topics_interest)
                /\ csv[j].comments = SpacesFor(comments)
    /\ \A i \in 1..Len(evalSheet) : \E j \in 1..Len(csv) :
          /\ csv[j].cert_id = evalSheet[i].cert_id
          /\ evalSheet[i].topics_interest = csv[j].topics_interest
          /\ evalSheet[i].comments = csv[j].comments
          /\ evalSheet[i].payload_json.topics_interest = csv[j].topics_interest
          /\ evalSheet[i].payload_json.comments = csv[j].comments

\* C9 witness: a submission with two line breaks in one text area and a line
\* break inside the other was stored in the CSV and in the evaluation sheet.
MultiLineTextStored ==
    /\ topics_interest = <<"\n", "\n">>
    /\ comments = <<"a", "\n", "a">>
    /\ Len(csv) = 1
    /\ Len(evalSheet) = 1

\* C11 (as claimed): a Submit run that gets past the completion check, and so
\* computes 100 * correct / total, has a quiz of at least one item; a Submit
\* click on a quiz of zero items does not end in an unhandled error.
ScoringNeverDividesByZero ==
    /\ (event = "submit" /\ participant_ok /\ Unanswered = {}) => Len(QUIZ) >= 1
    /\ (event = "submit" /\ Len(QUIZ) = 0) => "exception" \notin ui

-----------------------------------------------------------------------------
(* Claims about sheets_append_dict *)

HeaderOf(w) == IF Len(w.rows) >= 1 THEN w.rows[1] ELSE <<>>
CellsOf(h) == {h[j] : j \in 1..Len(h)}
IsKeyOf(d, c) == \E i \in 1..Len(d) : d[i].key = c
ValueOf(d, c) == d[CHOOSE i \in 1..Len(d) : d[i].key = c].value

\* C10 (as claimed): a call keeps the previous header as a prefix of the new one,
\* appends exactly the keys of row_dict missing from the header, in row_dict
\* order, and appends one data row that holds row_dict[k] under every column
\* named k and the empty string under every other column.
HeaderAlignment ==
    [][ ws' # ws =>
          LET d       == lastDict'
              oldH    == HeaderOf(ws)
              newH    == HeaderOf(ws')
              row     == Last(ws'.rows)
              missing == SelectSeq(DictKeys(d), LAMBDA k : k \notin CellsOf(oldH))
          IN  /\ newH = oldH \o missing
              /\ DataRows(ws') = DataRows(ws) + 1
              /\ \A r \in 2..Len(ws.rows) : ws'.rows[r] = ws.rows[r]
              /\ Len(row) = Len(newH)
              /\ \A i \in 1..Len(d) : d[i].key \in CellsOf(newH)
              /\ \A j \in 1..Len(newH) :
                    row[j] = IF IsKeyOf(d, newH[j]) THEN ValueOf(d, newH[j]) ELSE "" ]_vars

=============================================================================
